---- MODULE Spec2Model ----
(***************************************************************************)
(* application.js of profile-live-application: a supervisor that runs      *)
(* `node --prof server.js` as a child for DEBUG_PROFILE_TIME milliseconds, *)
(* then loads server.js in-process, finds the newest isolate-* file and    *)
(* prints the output of `node --prof-process <file>`.                      *)
(*                                                                         *)
(* The model follows Node's run-to-completion scheduling: an event         *)
(* callback (timer, child-process event, fs callback) runs only when the   *)
(* promise-reaction queue is empty, and an 'error' event emitted on an     *)
(* emitter that has no 'error' listener is thrown as an uncaught           *)
(* exception, which ends the process.                                      *)
(***************************************************************************)
EXTENDS Integers, Sequences, FiniteSets, TLC

\* ------------------------------------------------------------------ bounds
\* Largest clock value (milliseconds) and largest leftover-file mtime.
MaxTime == 3
\* Largest number of stdout chunks the post-processor writes.
MaxChunks == 3
\* Largest number of lines the in-process service logs.
MaxServiceLogs == 1
\* Largest number of isolate files the sort of line 21 is applied to.
MaxCandidates == 11

\* --------------------------------------------------------------- constants
\* A path of the directory that holds no file.
NoFile == -1
\* fs.stat outcomes that are not a modification time.
StatPending == -2
StatErr == -1
\* ToNumber of a string that is not a numeral.
NaN == -1
\* The value of process.env.DEBUG_PROFILE_TIME when the variable is unset.
Undefined == "undefined"
\* The values of DEBUG_PROFILE_TIME the model starts from: unset, empty, a
\* zero duration and a positive one. (A value that is not a numeral arms the
\* timer with the same delay as "0", see TimerDelay, and is not enumerated.)
EnvValues == {Undefined, "", "0", "2"}

\* The three names the glob 'isolate-*' can match, in listing order; the
\* profiled child writes the second one, the others are left over.
NumPaths == 3
PathIds == 1..NumPaths
ChildPath == 2

\* stdout chunks (byte sequences) the post-processor can write.
Chunks == {<<65, 66>>, <<67, 68>>, <<69, 70>>}

\* The ways child_process.spawn can end: the child runs; the failure is
\* reported by an 'error' event on the next tick (ENOENT, EACCES, EAGAIN,
\* EMFILE, ENFILE); or spawn throws synchronously (any other errno).
SpawnOutcomes == {"ok", "errorEvent", "throw"}

\* Exit codes a child can end with.
ExitCodes == {"0", "1"}

\* Listeners application.js registers on each child.
ServerListeners == {"close"}
ProfileListeners == {"err", "close"}

VARIABLES
    env,            \* process.env.DEBUG_PROFILE_TIME
    now,            \* clock, ms
    pc,             \* "start" before the promise executor ran, "ran" after
    outer,          \* state of the outer promise
    microtasks,     \* queue of pending promise reactions
    crashed,        \* the supervisor process died of an uncaught exception
    serviceLoaded,  \* number of times require('./server.js') ran
    serverProc,     \* the profiled child
    serverStatus,   \* exit code / signal the profiled child ended with
    serverClosed,   \* the 'close' handler of the profiled child has run
    timer,          \* the setTimeout of line 53
    timerDue,       \* clock value at which the timer expires
    sigints,        \* SIGINTs delivered to the profiled child
    signals,        \* every signal the supervisor sent: target and name
    dir,            \* isolate-* files: path id -> mtime or NoFile
    globState,      \* the glob call of findLatestProfile
    listing,        \* paths glob returned
    statRes,        \* fs.stat result per listed path
    allState,       \* state of the Promise.all of line 15
    picked,         \* path findLatestProfile resolved with (0: none)
    profileProc,    \* the post-processor child
    profileArg,     \* path argument the post-processor was spawned with
    profileStatus,  \* exit code the post-processor's 'close' event carried
    pipe,           \* chunks written by the post-processor, not yet read
    emitted,        \* every chunk the post-processor wrote, in order
    output,         \* the accumulator `output` of line 38
    report,         \* the value printed by line 46
    log             \* lines written by console.log / console.warn

vars == <<env, now, pc, outer, microtasks, crashed, serviceLoaded,
          serverProc, serverStatus, serverClosed, timer, timerDue, sigints,
          signals,
          dir, globState, listing, statRes, allState, picked,
          profileProc, profileArg, profileStatus, pipe, emitted, output,
          report, log>>

\* Groups of variables, for UNCHANGED.
serverVars == <<serverProc, serverStatus, serverClosed, sigints, signals>>
timerVars == <<timer, timerDue>>
locatorVars == <<globState, listing, statRes, allState, picked>>
profileVars == <<profileProc, profileArg, profileStatus, pipe, emitted, output,
                 report>>

\* ----------------------------------------------------------------- helpers
\* JavaScript truthiness of an environment value: undefined and the empty
\* string are falsy, every other string (also "0") is truthy.
Truthy(v) == v # Undefined /\ v # ""

\* Line 2: `if(!process.env.DEBUG_PROFILE_TIME) return resolve()`.
ProfilingEnabledNumeric(v) == Truthy(v) /\ v # "0"
ProfilingEnabled(v) == Truthy(v)

\* JavaScript ToNumber on the strings of EnvValues.
ToNumber(v) == CASE v = "0" -> 0
                 [] v = "2" -> 2
                 [] v = ""  -> 0
                 [] OTHER   -> NaN

\* setTimeout's coercion of its delay: a delay that is not a number >= 1
\* becomes 1 ms.
TimerDelayZeroNever(v) == IF ToNumber(v) >= 1 THEN ToNumber(v) ELSE MaxTime + 1
TimerDelay(v) == IF ToNumber(v) >= 1 THEN ToNumber(v) ELSE 1

\* EventEmitter.emit: "handled" when a listener is registered for the event,
\* "throw" for an 'error' event nobody listens to, "ignored" otherwise.
Emit(event, listeners) ==
    IF event \in listeners THEN "handled"
    ELSE IF event = "error" THEN "throw"
    ELSE "ignored"

\* The name of the event a ChildProcess emits when it could not be spawned.
SpawnFailureEvent == "error"

\* Line 21: the comparator (a, b) => b.stat.mtime - a.stat.mtime.
CompareAscending(a, b) == a.mtime - b.mtime
CompareTiesAfter(a, b) == IF b.mtime >= a.mtime THEN 1 ELSE -1
Compare(a, b) == b.mtime - a.mtime

\* Array.prototype.sort as an insertion sort: x goes before the first
\* element that the comparator orders after it, so equal elements keep
\* their listing order.
RECURSIVE InsertSorted(_, _)
InsertSorted(x, sorted) ==
    IF sorted = <<>> THEN <<x>>
    ELSE IF Compare(Head(sorted), x) > 0 THEN <<x>> \o sorted
    ELSE <<Head(sorted)>> \o InsertSorted(x, Tail(sorted))

RECURSIVE SortStats(_)
SortStats(stats) ==
    IF stats = <<>> THEN <<>>
    ELSE InsertSorted(stats[Len(stats)], SortStats(SubSeq(stats, 1, Len(stats) - 1)))

\* Array.prototype.sort of the V8 that Node 6 ships (the README's sample
\* output is that of node 6.11.3): ranges of more than InsertionSortLimit
\* elements are sorted by a quicksort whose pivot is the median of the
\* first, the last and the middle element, shorter ranges by insertion
\* sort.  Indexes are those of the JavaScript array (from 0); `to` is
\* exclusive.
InsertionSortLimit == 10
At(a, i) == a[i + 1]
Put(a, i, v) == [a EXCEPT ![i + 1] = v]

\* The inner loop of the insertion sort: shift right the elements that the
\* comparator orders after `element`, then store it.
RECURSIVE InsertionShift(_, _, _, _)
InsertionShift(a, j, from, element) ==
    IF j >= from /\ Compare(At(a, j), element) > 0
    THEN InsertionShift(Put(a, j + 1, At(a, j)), j - 1, from, element)
    ELSE Put(a, j + 1, element)

RECURSIVE InsertionSort(_, _, _, _)
InsertionSort(a, i, from, to) ==
    IF i >= to THEN a
    ELSE InsertionSort(InsertionShift(a, i - 1, from, At(a, i)), i + 1, from, to)

\* The do-while of the partition loop: move high_start down to an element
\* that is not ordered after the pivot, or stop when it meets i.
RECURSIVE ScanDown(_, _, _, _)
ScanDown(a, hs, i, pivot) ==
    LET h == hs - 1 IN
    IF h = i THEN [high_start |-> h, order |-> 0, met |-> TRUE]
    ELSE LET order == Compare(At(a, h), pivot) IN
         IF order > 0 THEN ScanDown(a, h, i, pivot)
         ELSE [high_start |-> h, order |-> order, met |-> FALSE]

\* The partition loop: elements before low_end are ordered before the
\* pivot, elements from high_start on are ordered after it.
RECURSIVE Partition(_, _, _, _, _)
Partition(a, i, le, hs, pivot) ==
    IF i >= hs THEN [a |-> a, low_end |-> le, high_start |-> hs]
    ELSE LET element == At(a, i)
             order == Compare(element, pivot)
         IN IF order < 0
            THEN Partition(Put(Put(a, i, At(a, le)), le, element),
                           i + 1, le + 1, hs, pivot)
            ELSE IF order > 0
            THEN LET s == ScanDown(a, hs, i, pivot) IN
                 IF s.met
                 THEN [a |-> a, low_end |-> le, high_start |-> s.high_start]
                 ELSE LET b == Put(Put(a, i, At(a, s.high_start)),
                                   s.high_start, element)
                      IN IF s.order < 0
                         THEN Partition(Put(Put(b, i, At(b, le)), le, At(b, i)),
                                        i + 1, le + 1, s.high_start, pivot)
                         ELSE Partition(b, i + 1, le, s.high_start, pivot)
            ELSE Partition(a, i + 1, le, hs, pivot)

RECURSIVE QuickSort(_, _, _)
QuickSort(a, from, to) ==
    IF to - from <= InsertionSortLimit
    THEN InsertionSort(a, from + 1, from, to)
    ELSE LET third == from + ((to - from) \div 2)
             x0 == At(a, from)
             x1 == At(a, to - 1)
             x2 == At(a, third)
             \* order the first and the last element
             swap01 == Compare(x0, x1) > 0
             y0 == IF swap01 THEN x1 ELSE x0
             y1 == IF swap01 THEN x0 ELSE x1
             \* place the middle element among them
             c02 == Compare(y0, x2)
             c12 == Compare(y1, x2)
             v0 == IF c02 >= 0 THEN x2 ELSE y0
             v1 == IF c02 >= 0 THEN y0 ELSE IF c12 > 0 THEN x2 ELSE y1
             v2 == IF c02 >= 0 THEN y1 ELSE IF c12 > 0 THEN y1 ELSE x2
             a1 == Put(Put(a, from, v0), to - 1, v2)
             a2 == Put(Put(a1, third, At(a1, from + 1)), from + 1, v1)
             p == Partition(a2, from + 2, from + 1, to - 1, v1)
         IN IF to - p.high_start < p.low_end - from
            THEN QuickSort(QuickSort(p.a, p.high_start, to), from, p.low_end)
            ELSE QuickSort(QuickSort(p.a, from, p.low_end), p.high_start, to)

\* paths.sort(compare): up to InsertionSortLimit elements the engine's
\* insertion sort, which is SortStats; above, its quicksort.  (Engines whose
\* sort is stable for every length, V8 from 7.0 on, give SortStats always.)
ArraySort(stats) ==
    IF Len(stats) <= InsertionSortLimit THEN SortStats(stats)
    ELSE QuickSort(stats, 0, Len(stats))

\* Line 21: paths.sort(...)[0].path.  On an empty array [0] is undefined and
\* reading .path throws a TypeError, written 0 here.
TypeError == 0
LatestPath(stats) ==
    IF stats = <<>> THEN TypeError ELSE ArraySort(stats)[1].path

\* Buffer.toString of the bytes the model uses (ASCII).
ByteToChar(b) == CASE b = 65 -> "A" [] b = 66 -> "B" [] b = 67 -> "C"
                   [] b = 68 -> "D" [] b = 69 -> "E" [] b = 70 -> "F"
                   [] OTHER -> "?"
Decode(chunk) == [i \in 1..Len(chunk) |-> ByteToChar(chunk[i])]

\* Line 39: output += chunk.
AccumulateOverwrite(out, chunk) == Decode(chunk)
Accumulate(out, chunk) == out \o Decode(chunk)

\* The files glob('isolate-*') lists: the existing paths, in listing order.
RECURSIVE ListFrom(_, _)
ListFrom(d, p) ==
    IF p > NumPaths THEN <<>>
    ELSE IF d[p] # NoFile THEN <<p>> \o ListFrom(d, p + 1)
    ELSE ListFrom(d, p + 1)
GlobMatches(d) == ListFrom(d, 1)

\* The array Promise.all resolves with: { path, stat } per listed path.
StatRecords == [i \in 1..Len(listing) |-> [path |-> listing[i], mtime |-> statRes[i]]]

\* Line 53: server.kill('SIGINT').  ChildProcess.kill signals the child only
\* while its handle is open; on a child that has ended it sends nothing.
KillSignal == "SIGINT"
KillByPid(proc, sent) ==
    Append(sent, [target |-> IF proc = "running" THEN "server" ELSE "other",
                  signal |-> KillSignal])
Kill(proc, sent) ==
    IF proc = "running"
    THEN Append(sent, [target |-> "server", signal |-> KillSignal])
    ELSE sent

\* No promise reaction and no next-tick callback is pending and the process
\* is alive: the event loop may run the next event callback.
LoopIdle ==
    /\ ~crashed
    /\ microtasks = <<>>
    /\ serverProc # "spawnError"
    /\ profileProc # "spawnError"

\* ------------------------------------------------------------------- Init
\* The modification times of isolate files that earlier sessions left in the
\* working directory: below, equal to and above the times at which this
\* session's child can write its own file.
LeftoverTimes == 1..3
Init ==
    /\ env \in EnvValues
    /\ now = 0
    /\ pc = "start"
    /\ outer = "pending"
    /\ microtasks = <<>>
    /\ crashed = FALSE
    /\ serviceLoaded = 0
    /\ serverProc = "none"
    /\ serverStatus = "none"
    /\ serverClosed = FALSE
    /\ timer = "unarmed"
    /\ timerDue = 0
    /\ sigints = 0
    /\ signals = <<>>
    /\ dir \in {d \in [PathIds -> {NoFile} \cup LeftoverTimes] : d[ChildPath] = NoFile}
    /\ globState = "idle"
    /\ listing = <<>>
    /\ statRes = <<>>
    /\ allState = "idle"
    /\ picked = 0
    /\ profileProc = "none"
    /\ profileArg = 0
    /\ profileStatus = "none"
    /\ pipe = <<>>
    /\ emitted = <<>>
    /\ output = <<>>
    /\ report = <<>>
    /\ log = <<>>

\* ------------------------------------------------------ entrypoint, 1..56
\* The promise executor of lines 1-53, run once at process start.
Executor ==
    /\ pc = "start"
    /\ pc' = "ran"
    /\ IF ~ProfilingEnabled(env)
       THEN \* line 2: return resolve()
            /\ outer' = "resolved"
            /\ microtasks' = Append(microtasks, "require")
            /\ UNCHANGED <<serverVars, timerVars, log, crashed>>
       ELSE \E outcome \in SpawnOutcomes :
            /\ log' = Append(log, "Profiling")
            /\ IF outcome = "throw"
               THEN \* spawn throws inside the executor: the promise is
                    \* rejected and line 53 is not reached
                    /\ outer' = "rejected"
                    /\ UNCHANGED <<serverVars, timerVars>>
               ELSE /\ outer' = "pending"
                    /\ serverProc' = IF outcome = "ok" THEN "running" ELSE "spawnError"
                    /\ timer' = "armed"
                    /\ timerDue' = now + TimerDelay(env)
                    /\ UNCHANGED <<serverStatus, serverClosed, sigints, signals>>
            /\ UNCHANGED <<microtasks, crashed>>
    /\ UNCHANGED <<env, now, serviceLoaded, dir, locatorVars, profileVars>>

\* Lines 54-56: the reaction of the outer promise.
RunRequire ==
    /\ ~crashed
    /\ microtasks # <<>> /\ Head(microtasks) = "require"
    /\ microtasks' = Tail(microtasks)
    /\ serviceLoaded' = serviceLoaded + 1
    /\ UNCHANGED <<env, now, pc, outer, crashed, serverVars, timerVars, dir,
                   locatorVars, profileVars, log>>

\* ------------------------------------------------- time and the children
\* One millisecond passes.  Time matters only while the timer is pending or
\* the profiled child can still write its artifact.
Tick ==
    /\ ~crashed
    /\ now < MaxTime
    /\ timer = "armed" \/ serverProc = "running"
    /\ now' = now + 1
    /\ UNCHANGED <<env, pc, outer, microtasks, crashed, serviceLoaded,
                   serverVars, timerVars, dir, locatorVars, profileVars, log>>

\* The profiled child (node --prof) creates or appends to its isolate file.
ChildWrite ==
    /\ ~crashed
    /\ serverProc = "running"
    /\ dir[ChildPath] # now
    /\ dir' = [dir EXCEPT ![ChildPath] = now]
    /\ UNCHANGED <<env, now, pc, outer, microtasks, crashed, serviceLoaded,
                   serverVars, timerVars, locatorVars, profileVars, log>>

\* The profiled child ends: on its own with some exit code, or by the SIGINT
\* it was sent.  A child may also never end.
ServerExit ==
    /\ ~crashed
    /\ serverProc = "running"
    /\ serverProc' = "exited"
    /\ \E st \in ExitCodes \cup {KillSignal} :
          /\ st = KillSignal => sigints > 0
          /\ serverStatus' = st
    /\ UNCHANGED <<env, now, pc, outer, microtasks, crashed, serviceLoaded,
                   serverClosed, sigints, signals, timerVars, dir, locatorVars,
                   profileVars, log>>

\* Next tick after a failed spawn of line 25: the child emits 'error'.  No
\* 'error' listener is registered on `server`, so emit throws.
ServerErrorEvent ==
    /\ ~crashed
    /\ serverProc = "spawnError"
    /\ serverProc' = "failed"
    /\ crashed' = (Emit("error", ServerListeners) = "throw")
    /\ UNCHANGED <<env, now, pc, outer, microtasks, serviceLoaded,
                   serverStatus, serverClosed, sigints, signals, timerVars, dir,
                   locatorVars, profileVars, log>>

\* Line 53: the timer callback, server.kill('SIGINT').  kill is a no-op on
\* a child that has already ended.
TimerFireResolves ==
    /\ LoopIdle
    /\ timer = "armed" /\ now >= timerDue
    /\ timer' = "fired"
    /\ sigints' = IF serverProc = "running" THEN sigints + 1 ELSE sigints
    /\ signals' = Kill(serverProc, signals)
    /\ outer' = "resolved"
    /\ microtasks' = IF outer = "pending" THEN Append(microtasks, "require")
                     ELSE microtasks
    /\ UNCHANGED <<env, now, pc, crashed, serviceLoaded,
                   serverProc, serverStatus, serverClosed, timerDue, dir,
                   locatorVars, profileVars, log>>

TimerFireDiscovers ==
    /\ LoopIdle
    /\ timer = "armed" /\ now >= timerDue
    /\ timer' = "fired"
    /\ sigints' = IF serverProc = "running" THEN sigints + 1 ELSE sigints
    /\ signals' = Kill(serverProc, signals)
    /\ globState' = "pending"
    /\ log' = Append(log, "Finding")
    /\ UNCHANGED <<env, now, pc, outer, microtasks, crashed, serviceLoaded,
                   serverProc, serverStatus, serverClosed, timerDue, dir,
                   listing, statRes, allState, picked, profileVars>>

TimerFireRepeats ==
    /\ LoopIdle
    /\ timer = "armed" /\ now >= timerDue
    /\ Len(signals) < 2
    /\ sigints' = IF serverProc = "running" THEN sigints + 1 ELSE sigints
    /\ signals' = Kill(serverProc, signals)
    /\ UNCHANGED <<env, now, pc, outer, microtasks, crashed, serviceLoaded,
                   serverProc, serverStatus, serverClosed, timerVars, dir,
                   locatorVars, profileVars, log>>

TimerFireRequires ==
    /\ LoopIdle
    /\ timer = "armed" /\ now >= timerDue
    /\ timer' = "fired"
    /\ sigints' = IF serverProc = "running" THEN sigints + 1 ELSE sigints
    /\ signals' = Kill(serverProc, signals)
    /\ microtasks' = Append(microtasks, "require")
    /\ UNCHANGED <<env, now, pc, outer, crashed, serviceLoaded,
                   serverProc, serverStatus, serverClosed, timerDue, dir,
                   locatorVars, profileVars, log>>

TimerFireKillsByPid ==
    /\ LoopIdle
    /\ timer = "armed" /\ now >= timerDue
    /\ timer' = "fired"
    /\ sigints' = IF serverProc = "running" THEN sigints + 1 ELSE sigints
    /\ signals' = KillByPid(serverProc, signals)
    /\ UNCHANGED <<env, now, pc, outer, microtasks, crashed, serviceLoaded,
                   serverProc, serverStatus, serverClosed, timerDue, dir,
                   locatorVars, profileVars, log>>

TimerFire ==
    /\ LoopIdle
    /\ timer = "armed" /\ now >= timerDue
    /\ timer' = "fired"
    /\ sigints' = IF serverProc = "running" THEN sigints + 1 ELSE sigints
    /\ signals' = Kill(serverProc, signals)
    /\ UNCHANGED <<env, now, pc, outer, microtasks, crashed, serviceLoaded,
                   serverProc, serverStatus, serverClosed, timerDue, dir,
                   locatorVars, profileVars, log>>

\* Lines 29-33: the 'close' handler of the profiled child, up to the call
\* of glob inside findLatestProfile.  resolve() queues the reaction of the
\* outer promise (lines 54-56) before glob's callback can run.
ServerCloseNoResolve ==
    /\ LoopIdle
    /\ serverProc = "exited"
    /\ Emit("close", ServerListeners) = "handled"
    /\ serverProc' = "closed"
    /\ serverClosed' = TRUE
    /\ log' = log \o <<"Restarting", "Finding">>
    /\ globState' = "pending"
    /\ UNCHANGED <<env, now, pc, outer, microtasks, crashed, serviceLoaded,
                   serverStatus, sigints, signals, timerVars, dir, listing, statRes,
                   allState, picked, profileVars>>

ServerClose ==
    /\ LoopIdle
    /\ serverProc = "exited"
    /\ Emit("close", ServerListeners) = "handled"
    /\ serverProc' = "closed"
    /\ serverClosed' = TRUE
    /\ log' = log \o <<"Restarting", "Finding">>
    /\ outer' = "resolved"
    /\ microtasks' = IF outer = "pending" THEN Append(microtasks, "require")
                     ELSE microtasks
    /\ globState' = "pending"
    /\ UNCHANGED <<env, now, pc, crashed, serviceLoaded, serverStatus,
                   sigints, signals, timerVars, dir, listing, statRes, allState,
                   picked, profileVars>>

\* -------------------------------------------- findLatestProfile, 10..23
\* Line 13: glob's callback, with an error or with the matching paths.
GlobDone ==
    /\ LoopIdle
    /\ globState = "pending"
    /\ \E ok \in BOOLEAN :
          IF ok
          THEN /\ globState' = "done"
               /\ listing' = GlobMatches(dir)
               /\ microtasks' = Append(microtasks, "mapStats")
          ELSE /\ globState' = "err"
               /\ listing' = listing
               /\ microtasks' = Append(microtasks, "catch")
    /\ UNCHANGED <<env, now, pc, outer, crashed, serviceLoaded, serverVars,
                   timerVars, dir, statRes, allState, picked, profileVars, log>>

\* Lines 14-19: one fs.stat per path under Promise.all; Promise.all of an
\* empty array is already resolved.
MapStats ==
    /\ ~crashed
    /\ microtasks # <<>> /\ Head(microtasks) = "mapStats"
    /\ statRes' = [i \in 1..Len(listing) |-> StatPending]
    /\ IF listing = <<>>
       THEN /\ allState' = "resolved"
            /\ microtasks' = Append(Tail(microtasks), "sortPick")
       ELSE /\ allState' = "pending"
            /\ microtasks' = Tail(microtasks)
    /\ UNCHANGED <<env, now, pc, outer, crashed, serviceLoaded, serverVars,
                   timerVars, dir, globState, listing, picked, profileVars, log>>

\* Line 17: the callback of one fs.stat.  The first error rejects the
\* Promise.all; the last success resolves it.
StatDoneIgnoresError(i) ==
    /\ LoopIdle
    /\ allState \in {"pending", "rejected"}
    /\ i \in 1..Len(statRes)
    /\ statRes[i] = StatPending
    /\ \E r \in {dir[listing[i]], StatErr} :
          /\ statRes' = [statRes EXCEPT ![i] = r]
          /\ IF allState = "pending"
                /\ \A j \in 1..Len(statRes) : j # i => statRes[j] # StatPending
             THEN /\ allState' = "resolved"
                  /\ microtasks' = Append(microtasks, "sortPick")
             ELSE UNCHANGED <<allState, microtasks>>
    /\ UNCHANGED <<env, now, pc, outer, crashed, serviceLoaded, serverVars,
                   timerVars, dir, globState, listing, picked, profileVars, log>>

StatDone(i) ==
    /\ LoopIdle
    /\ allState \in {"pending", "rejected"}
    /\ i \in 1..Len(statRes)
    /\ statRes[i] = StatPending
    /\ \E r \in {dir[listing[i]], StatErr} :
          /\ statRes' = [statRes EXCEPT ![i] = r]
          /\ IF allState = "pending" /\ r = StatErr
             THEN /\ allState' = "rejected"
                  /\ microtasks' = Append(microtasks, "catch")
             ELSE IF allState = "pending"
                     /\ \A j \in 1..Len(statRes) : j # i => statRes[j] >= 0
             THEN /\ allState' = "resolved"
                  /\ microtasks' = Append(microtasks, "sortPick")
             ELSE UNCHANGED <<allState, microtasks>>
    /\ UNCHANGED <<env, now, pc, outer, crashed, serviceLoaded, serverVars,
                   timerVars, dir, globState, listing, picked, profileVars, log>>

\* Lines 20-22: sort and take the first path, or throw on an empty array.
SortPick ==
    /\ ~crashed
    /\ microtasks # <<>> /\ Head(microtasks) = "sortPick"
    /\ LET p == LatestPath(StatRecords) IN
          IF p = TypeError
          THEN /\ microtasks' = Append(Tail(microtasks), "catch")
               /\ picked' = picked
          ELSE /\ microtasks' = Append(Tail(microtasks), "spawnProfile")
               /\ picked' = p
    /\ UNCHANGED <<env, now, pc, outer, crashed, serviceLoaded, serverVars,
                   timerVars, dir, globState, listing, statRes, allState,
                   profileVars, log>>

\* ------------------------------------------------- post-processor, 33..50
\* Lines 34-41: log, spawn the post-processor, register the listeners.
SpawnProfile ==
    /\ ~crashed
    /\ microtasks # <<>> /\ Head(microtasks) = "spawnProfile"
    /\ log' = Append(log, "Processing")
    /\ \E outcome \in SpawnOutcomes :
          IF outcome = "throw"
          THEN /\ microtasks' = Append(Tail(microtasks), "catch")
               /\ UNCHANGED <<profileProc, profileArg>>
          ELSE /\ microtasks' = Tail(microtasks)
               /\ profileProc' = IF outcome = "ok" THEN "running" ELSE "spawnError"
               /\ profileArg' = picked
    /\ UNCHANGED <<env, now, pc, outer, crashed, serviceLoaded, serverVars,
                   timerVars, dir, locatorVars, profileStatus, pipe, emitted,
                   output, report>>

\* Next tick after a failed spawn of line 37: the child emits 'error'.  Line
\* 40 listens for 'err'; with no 'error' listener emit throws.
ProfileErrorEvent ==
    /\ ~crashed
    /\ profileProc = "spawnError"
    /\ profileProc' = "failed"
    /\ LET r == Emit(SpawnFailureEvent, ProfileListeners) IN
          /\ crashed' = (r = "throw")
          /\ microtasks' = IF r = "handled" THEN Append(microtasks, "catch")
                           ELSE microtasks
    /\ UNCHANGED <<env, now, pc, outer, serviceLoaded, serverVars, timerVars,
                   dir, locatorVars, profileArg, profileStatus, pipe, emitted, output,
                   report, log>>

\* The post-processor writes a chunk to its stdout.
ProfileWrite(c) ==
    /\ ~crashed
    /\ profileProc = "running"
    /\ Len(emitted) < MaxChunks
    /\ pipe' = Append(pipe, c)
    /\ emitted' = Append(emitted, c)
    /\ UNCHANGED <<env, now, pc, outer, microtasks, crashed, serviceLoaded,
                   serverVars, timerVars, dir, locatorVars, profileProc,
                   profileArg, profileStatus, output, report, log>>

\* Line 39: the 'data' listener.
ProfileDataForwards ==
    /\ LoopIdle
    /\ profileProc \in {"running", "exited"}
    /\ pipe # <<>>
    /\ output' = Accumulate(output, Head(pipe))
    /\ pipe' = Tail(pipe)
    /\ log' = Append(log, "Body")
    /\ UNCHANGED <<env, now, pc, outer, microtasks, crashed, serviceLoaded,
                   serverVars, timerVars, dir, locatorVars, profileProc,
                   profileArg, profileStatus, emitted, report>>

ProfileData ==
    /\ LoopIdle
    /\ profileProc \in {"running", "exited"}
    /\ pipe # <<>>
    /\ output' = Accumulate(output, Head(pipe))
    /\ pipe' = Tail(pipe)
    /\ UNCHANGED <<env, now, pc, outer, microtasks, crashed, serviceLoaded,
                   serverVars, timerVars, dir, locatorVars, profileProc,
                   profileArg, profileStatus, emitted, report, log>>

\* The post-processor ends, with whatever exit code.
ProfileExit ==
    /\ ~crashed
    /\ profileProc = "running"
    /\ profileProc' = "exited"
    /\ UNCHANGED <<env, now, pc, outer, microtasks, crashed, serviceLoaded,
                   serverVars, timerVars, dir, locatorVars, profileArg,
                   profileStatus, pipe,
                   emitted, output, report, log>>

\* Line 41: the 'close' listener; 'close' is emitted once the child has
\* ended and its stdio streams have been read to the end, and carries the
\* exit code, which the listener does not take.
ProfileCloseChecksCode ==
    /\ LoopIdle
    /\ profileProc = "exited"
    /\ pipe = <<>>
    /\ profileProc' = "closed"
    /\ \E code \in ExitCodes :
          /\ profileStatus' = code
          /\ microtasks' = Append(microtasks, IF code = "0" THEN "emitReport"
                                              ELSE "catch")
    /\ UNCHANGED <<env, now, pc, outer, crashed, serviceLoaded, serverVars,
                   timerVars, dir, locatorVars, profileArg, pipe, emitted,
                   output, report, log>>

ProfileClose ==
    /\ LoopIdle
    /\ profileProc = "exited"
    /\ pipe = <<>>
    /\ profileProc' = "closed"
    /\ profileStatus' \in ExitCodes
    /\ microtasks' = Append(microtasks, "emitReport")
    /\ UNCHANGED <<env, now, pc, outer, crashed, serviceLoaded, serverVars,
                   timerVars, dir, locatorVars, profileArg, pipe, emitted,
                   output, report, log>>

\* Lines 44-47: print the report block.
EmitReportDeletesArtifact ==
    /\ ~crashed
    /\ microtasks # <<>> /\ Head(microtasks) = "emitReport"
    /\ microtasks' = Tail(microtasks)
    /\ report' = output
    /\ log' = log \o <<"Start", "Body", "End">>
    /\ dir' = [dir EXCEPT ![profileArg] = NoFile]
    /\ UNCHANGED <<env, now, pc, outer, crashed, serviceLoaded, serverVars,
                   timerVars, locatorVars, profileProc, profileArg, profileStatus,
                   pipe, emitted, output>>

EmitReport ==
    /\ ~crashed
    /\ microtasks # <<>> /\ Head(microtasks) = "emitReport"
    /\ microtasks' = Tail(microtasks)
    /\ report' = output
    /\ log' = log \o <<"Start", "Body", "End">>
    /\ UNCHANGED <<env, now, pc, outer, crashed, serviceLoaded, serverVars,
                   timerVars, dir, locatorVars, profileProc, profileArg, profileStatus,
                   pipe, emitted, output>>

\* Lines 48-50: the catch at the end of the chain.
CatchWarnThenReport ==
    /\ ~crashed
    /\ microtasks # <<>> /\ Head(microtasks) = "catch"
    /\ microtasks' = Append(Tail(microtasks), "emitReport")
    /\ log' = Append(log, "Warn")
    /\ UNCHANGED <<env, now, pc, outer, crashed, serviceLoaded, serverVars,
                   timerVars, dir, locatorVars, profileVars>>

CatchWarn ==
    /\ ~crashed
    /\ microtasks # <<>> /\ Head(microtasks) = "catch"
    /\ microtasks' = Tail(microtasks)
    /\ log' = Append(log, "Warn")
    /\ UNCHANGED <<env, now, pc, outer, crashed, serviceLoaded, serverVars,
                   timerVars, dir, locatorVars, profileVars>>

Next ==
    \/ Executor
    \/ RunRequire
    \/ Tick
    \/ ChildWrite
    \/ ServerExit
    \/ ServerErrorEvent
    \/ TimerFire
    \/ ServerClose
    \/ GlobDone
    \/ MapStats
    \/ \E i \in PathIds : StatDone(i)
    \/ SortPick
    \/ SpawnProfile
    \/ ProfileErrorEvent
    \/ \E c \in Chunks : ProfileWrite(c)
    \/ ProfileData
    \/ ProfileExit
    \/ ProfileClose
    \/ EmitReport
    \/ CatchWarn

Spec == Init /\ [][Next]_vars

\* ------------------------------------------------------------ observations
Logged(line) == \E i \in 1..Len(log) : log[i] = line
TimesLogged(line) == Cardinality({i \in 1..Len(log) : log[i] = line})

\* Nothing is left to run before the next event callback.
Settled == microtasks = <<>> /\ serverProc # "spawnError" /\ profileProc # "spawnError"

\* The state of the session in the terms of the design's state machine.
Session ==
    IF Logged("Warn") THEN "Failed"
    ELSE IF Logged("End") THEN "Done"
    ELSE IF profileProc = "closed" THEN "Reporting"
    ELSE IF profileProc # "none" THEN "PostProcessing"
    ELSE IF serverClosed THEN "Locating"
    ELSE IF timer = "fired" THEN "Terminating"
    ELSE IF serverProc # "none" THEN "Profiling"
    ELSE "Idle"

\* The decoded chunks of a sequence of chunks, concatenated in order.
RECURSIVE ConcatDecoded(_)
ConcatDecoded(chunks) ==
    IF chunks = <<>> THEN <<>>
    ELSE Decode(Head(chunks)) \o ConcatDecoded(Tail(chunks))

\* ------------------------------------------------------------------ claims
\* C1: the post-processor is spawned (line 37 reached) only after the
\* 'close' handler of the profiled child has run.
C1_PostProcessorAfterClose ==
    (profileProc # "none" \/ Logged("Processing"))
        => (serverClosed /\ serverProc = "closed")
\* C1 witness: the post-processor runs after a child that was ended by the
\* timer's SIGINT.
C1_Witness ==
    profileProc = "running" /\ serverStatus = "SIGINT" /\ timer = "fired"

\* C2 as stated: with profiling enabled the wrapped service is loaded only
\* once the session is Done or Failed.
C2_ServiceOnlyAfterSessionEnd ==
    (ProfilingEnabled(env) /\ serviceLoaded > 0) => Session \in {"Done", "Failed"}
\* C2 amended: with profiling enabled the wrapped service is loaded only
\* after the profiled child's close handler has run, and it is loaded before
\* the directory listing of discovery returns, so before any post-processor
\* spawn, report or warning.
C2_ServiceAfterCloseBeforeDiscovery ==
    ProfilingEnabled(env) =>
        /\ serviceLoaded > 0 => serverClosed
        /\ (globState \in {"done", "err"} \/ profileProc # "none"
              \/ Logged("Start") \/ Logged("Warn")) => serviceLoaded > 0
\* C2 witness: the service is loaded while the session is in Locating.
C2_Witness ==
    ProfilingEnabled(env) /\ serviceLoaded = 1 /\ Session = "Locating"
        /\ globState = "pending"

\* C3: the report block is printed only after require('./server.js') ran.
C3_ReportAfterRestart ==
    (Logged("Start") \/ Logged("Body") \/ Logged("End")) => serviceLoaded > 0
\* C3 witness: a report was printed and the service is loaded.
C3_Witness == Logged("End") /\ serviceLoaded = 1

\* C4: profiling is performed iff DEBUG_PROFILE_TIME is set and non-empty;
\* when it is not, the service is loaded at once and no child, timer or
\* discovery ever exists and nothing is logged about the duration.
C4_ProfilingIffSet ==
    pc = "ran" =>
        /\ Logged("Profiling") <=> (env # Undefined /\ env # "")
        /\ (env = Undefined \/ env = "") =>
              /\ serverProc = "none" /\ profileProc = "none"
              /\ timer = "unarmed" /\ timerDue = 0
              /\ globState = "idle" /\ allState = "idle"
              /\ log = <<>> /\ now = 0
              /\ serviceLoaded = 1 \/ (serviceLoaded = 0 /\ microtasks = <<"require">>)
\* C4 witness: the variable is set to the empty string and the service runs.
C4_Witness == env = "" /\ pc = "ran" /\ serviceLoaded = 1

\* C5 as stated: whatever fails in the session (spawn of the profiled
\* child, discovery, spawn of the post-processor), the wrapped service is
\* loaded once the failure has been handled.
C5_FailureNeverBlocksStartup ==
    ((outer = "rejected" \/ serverProc = "failed" \/ globState = "err"
        \/ allState = "rejected" \/ profileProc = "failed" \/ Logged("Warn"))
     /\ Settled) => serviceLoaded > 0

\* C6 as stated: after the 'error' event of a post-processor that could not
\* be spawned, a warning is logged, no report is printed and the supervisor
\* is alive.
C6_SpawnErrorMovesToFailed ==
    (profileProc = "failed" /\ Settled) =>
        (~crashed /\ Logged("Warn") /\ ~Logged("Start"))

\* C7: when glob lists no file, findLatestProfile fails, the warning is
\* logged once the chain has run, and no post-processor or report follows.
C7_NoMatchFails ==
    (globState = "done" /\ listing = <<>>) =>
        /\ profileProc = "none" /\ picked = 0
        /\ ~Logged("Processing") /\ ~Logged("Start")
        /\ Settled => (TimesLogged("Warn") = 1 /\ Session = "Failed")
\* C7 witness: no file matched and the warning is in the log.
C7_Witness ==
    globState = "done" /\ listing = <<>> /\ Logged("Warn") /\ serverClosed

\* C8: the path findLatestProfile resolves with is a listed path whose
\* mtime is at least the mtime of every listed path.
C8_PicksGreatestMtime ==
    picked # 0 =>
        \E k \in 1..Len(listing) :
            /\ listing[k] = picked
            /\ \A i \in 1..Len(listing) : statRes[k] >= statRes[i]
\* C8 witness: of A: 1, B: 3, C: 2 the locator picks B.
C8_Witness == picked = 2 /\ listing = <<1, 2, 3>> /\ statRes = <<1, 3, 2>>

\* C9: what line 39 has accumulated plus what is still unread is what the
\* post-processor wrote; at 'close' and when printed, the report is the
\* concatenation of all chunks written, in order.
C9_ReportIsConcatenation ==
    /\ output \o ConcatDecoded(pipe) = ConcatDecoded(emitted)
    /\ profileProc = "closed" => output = ConcatDecoded(emitted)
    /\ Logged("Body") => report = ConcatDecoded(emitted)
\* C9 witness: chunks AB, CD, EF were written and ABCDEF was printed.
C9_Witness ==
    /\ emitted = << <<65, 66>>, <<67, 68>>, <<69, 70>> >>
    /\ Logged("End")
    /\ report = <<"A", "B", "C", "D", "E", "F">>

\* C10: DEBUG_PROFILE_TIME=0 enables profiling; unless spawn throws, the
\* child is spawned and the timer is armed with the smallest delay a timer
\* can have, and its callback signals a child that is still running.
C10_ZeroDurationKillsAtOnce ==
    (env = "0" /\ pc = "ran") =>
        /\ Logged("Profiling")
        /\ outer # "rejected" =>
              /\ serverProc # "none"
              /\ timer \in {"armed", "fired"}
              /\ timerDue = 1
        /\ (timer = "fired" /\ serverProc = "running") => sigints = 1
\* C10 witness: with the value 0 the child got its SIGINT after 1 ms.
C10_Witness == env = "0" /\ sigints = 1 /\ now = 1 /\ serverProc = "running"

\* ---------------------------------------------------------------- liveness
\* What Node's event loop guarantees: time passes, an expired timer's
\* callback runs, a pending promise reaction runs, and the 'close' and
\* 'error' events of a child that has ended or failed are delivered.
\* Nothing makes a child end: ServerExit has no fairness.
Fairness ==
    /\ WF_vars(Tick)
    /\ WF_vars(TimerFire)
    /\ WF_vars(RunRequire)
    /\ WF_vars(ServerClose)
    /\ WF_vars(ServerErrorEvent)

\* Liveness is checked from the directories without leftover files: what
\* the directory holds has no part in when the service is loaded.
InitNoLeftovers == Init /\ \A p \in PathIds : dir[p] = NoFile

LiveSpec == InitNoLeftovers /\ [][Next]_vars /\ Fairness

\* C11 as stated: once the termination timer has fired, the wrapped service
\* is eventually loaded, whatever the profiled child does.
C11_StartsAfterTimerFired ==
    (ProfilingEnabled(env) /\ timer = "fired") ~> (serviceLoaded > 0)
\* C11 amended: once the profiled child has ended, the wrapped service is
\* eventually loaded.
C11_StartsOnceChildEnded ==
    (ProfilingEnabled(env) /\ serverProc = "exited") ~> (serviceLoaded > 0)
\* C11 witness: the child was ended by the timer's SIGINT and the service
\* is loaded.
C11_Witness ==
    serverStatus = "SIGINT" /\ timer = "fired" /\ serviceLoaded = 1

\* C12: each child is spawned at most once (lines 4 and 35 are logged right
\* before the two spawn calls), the post-processor is alive only when the
\* profiled child has closed, and no profiled child is spawned once the
\* service is loaded.
C12_OneChildPerRoleNeverTogether ==
    /\ [](TimesLogged("Profiling") <= 1 /\ TimesLogged("Processing") <= 1)
    /\ [](profileProc \in {"running", "exited", "spawnError"}
             => serverProc = "closed")
    /\ [][serviceLoaded > 0 =>
             /\ TimesLogged("Profiling")' = TimesLogged("Profiling")
             /\ (serverProc' \in {"running", "spawnError"}
                    => serverProc' = serverProc)]_vars
\* C12 witness: the post-processor runs, the profiled child has closed and
\* the service is loaded.
C12_Witness ==
    /\ profileProc = "running" /\ serverProc = "closed" /\ serviceLoaded = 1
    /\ TimesLogged("Profiling") = 1 /\ TimesLogged("Processing") = 1

\* C13: the supervisor sends at most one signal, it is a SIGINT to the
\* profiled child, and once the timer has fired no further signal is sent,
\* also while the child keeps running.
C13_OneSigintNoRetry ==
    /\ [](/\ Len(signals) <= 1
          /\ \A i \in 1..Len(signals) :
                signals[i] = [target |-> "server", signal |-> "SIGINT"])
    /\ [][timer = "fired" => signals' = signals /\ timer' = "fired"]_vars
\* C13 witness: the child got one SIGINT, time went on and it still runs.
C13_Witness ==
    /\ timer = "fired" /\ Len(signals) = 1
    /\ serverProc = "running" /\ now > timerDue

\* C14: the glob call and the fs.stat calls of findLatestProfile exist only
\* after the 'close' handler of the profiled child has run; the step in
\* which the timer expires and the kill is issued starts no discovery.
C14_DiscoveryOnlyAfterClose ==
    /\ []((globState # "idle" \/ Logged("Finding") \/ listing # <<>>
             \/ statRes # <<>> \/ allState # "idle") => serverClosed)
    /\ [][(timer = "armed" /\ timer' = "fired") =>
             UNCHANGED <<locatorVars, log, microtasks, serverClosed>>]_vars
\* C14 witness: the timer has expired, the kill was issued and the child has
\* ended, but its close event is not yet delivered: no discovery yet.
C14_Witness ==
    /\ timer = "fired" /\ Len(signals) = 1 /\ serverProc = "exited"
    /\ globState = "idle" /\ ~Logged("Finding")

\* C15: when the timer expires after the profiled child has ended, the
\* callback changes nothing but the timer itself: no signal is sent and no
\* discovery, post-processor, report or warning is started.
C15_LateTimerIsNoOp ==
    [][(timer = "armed" /\ timer' = "fired" /\ serverProc # "running") =>
          UNCHANGED <<env, now, pc, outer, microtasks, crashed, serviceLoaded,
                      serverVars, dir, locatorVars, profileVars, log>>]_vars
\* C15 witness: the child ended on its own, the session went on to the
\* post-processor before the deadline, and the timer then fired without a
\* signal.
C15_Witness ==
    /\ timer = "fired" /\ signals = <<>> /\ serverStatus = "0"
    /\ profileProc = "running" /\ serviceLoaded = 1

\* C16: after an error of glob, or of the fs.stat of any listed path, no
\* path is picked, no post-processor is spawned, no report is printed, and
\* the warning is logged once the chain has run.
C16_DiscoveryErrorFails ==
    (globState = "err" \/ \E i \in 1..Len(statRes) : statRes[i] = StatErr) =>
        /\ profileProc = "none" /\ picked = 0
        /\ ~Logged("Processing") /\ ~Logged("Start")
        /\ Settled => (TimesLogged("Warn") = 1 /\ Session = "Failed")
\* C16 witness: one fs.stat succeeded, another failed, the warning is logged.
C16_Witness ==
    /\ allState = "rejected" /\ Logged("Warn")
    /\ \E i, j \in 1..Len(statRes) : statRes[i] >= 0 /\ statRes[j] = StatErr

\* C17: whatever exit code or signal the profiled child closed with, the
\* close handler has loaded the service and started discovery; whatever exit
\* code the post-processor closed with, its output is printed as the report
\* and no warning is logged.
C17_ExitStatusNotInterpreted ==
    /\ (serverProc = "closed" /\ Settled) =>
          /\ serverStatus \in ExitCodes \cup {KillSignal}
          /\ Logged("Restarting") /\ Logged("Finding")
          /\ serviceLoaded = 1 /\ globState # "idle"
    /\ (profileProc = "closed" /\ Settled) =>
          /\ profileStatus \in ExitCodes
          /\ Logged("End") /\ ~Logged("Warn")
          /\ report = output
\* C17 witness: both children ended with exit code 1, the post-processor
\* wrote nothing, and the empty report was printed.
C17_Witness ==
    /\ serverStatus = "1" /\ profileStatus = "1" /\ profileProc = "closed"
    /\ emitted = <<>> /\ report = <<>> /\ Logged("End") /\ serviceLoaded = 1

\* ------------------------------------------- the in-process service's log
\* The wrapped service, once loaded, logs a line from one of its own event
\* callbacks (the route handlers of lib/hello.js).
ServiceLog ==
    /\ LoopIdle
    /\ serviceLoaded > 0
    /\ TimesLogged("Service") < MaxServiceLogs
    /\ log' = Append(log, "Service")
    /\ UNCHANGED <<env, now, pc, outer, microtasks, crashed, serviceLoaded,
                   serverVars, timerVars, dir, locatorVars, profileVars>>

NextWithService == Next \/ ServiceLog

\* The program together with the log lines of the loaded service, from the
\* directories without leftover files.
ServiceSpec == InitNoLeftovers /\ [][NextWithService]_vars

\* C18: reading a chunk of the post-processor writes nothing to the log,
\* and the lines Start, Body, End are always adjacent and in this order, so
\* no line of the loaded service is between them.
C18_ReportBlockIsWhole ==
    /\ [][(pipe' # pipe \/ output' # output) => log' = log]_vars
    /\ [](\A i \in 1..Len(log) :
            /\ log[i] = "Start" =>
                  (i + 2 <= Len(log) /\ log[i + 1] = "Body" /\ log[i + 2] = "End")
            /\ log[i] = "Body" => (i > 1 /\ log[i - 1] = "Start")
            /\ log[i] = "End" => (i > 1 /\ log[i - 1] = "Body"))
    /\ [](TimesLogged("Start") <= 1)
\* C18 witness: the loaded service logged a line while the post-processor
\* was writing its chunks, and the report block follows it in one piece.
C18_Witness ==
    /\ Len(emitted) >= 2
    /\ \E i \in 1..Len(log) :
          /\ log[i] = "Service" /\ i > 1 /\ log[i - 1] = "Processing"
          /\ i + 3 = Len(log) /\ log[i + 1] = "Start" /\ log[i + 3] = "End"

\* C19: the warning is logged only while the session is in Locating or
\* PostProcessing; once the report block or the warning is in the log, the
\* session does nothing more: no log line, promise reaction, spawn, glob,
\* pick or report follows.  (Callbacks of fs.stat calls issued before a
\* failure may still arrive; their results in statRes are not used.)
C19_DoneAndFailedAreTerminal ==
    /\ [][(~Logged("Warn") /\ Logged("Warn")') =>
             Session \in {"Locating", "PostProcessing"}]_vars
    /\ [][(Logged("End") \/ Logged("Warn")) =>
             UNCHANGED <<log, microtasks, outer, crashed, serviceLoaded,
                         serverVars, globState, listing, allState, picked,
                         profileVars>>]_vars
    /\ [](~(Logged("End") /\ Logged("Warn")))
\* C19 witness: the session has failed during discovery while the timer's
\* callback is still to come.
C19_Witness ==
    /\ Logged("Warn") /\ Session = "Failed" /\ microtasks = <<>>
    /\ timer = "armed" /\ now >= timerDue

\* C20 as stated: the path the post-processor is spawned with is the file
\* the profiled child of this session wrote.
C20_ArgIsCurrentArtifact ==
    profileProc # "none" => profileArg = ChildPath

\* ------------------------------------------------ the sort of line 21 alone
\* The session at the point where every fs.stat has answered and the
\* reaction of lines 20-22 is queued, for every directory of up to
\* MaxCandidates isolate files whose mtimes are drawn from TieTimes.
TieTimes == 1..2
SortInit ==
    /\ env = "2"
    /\ now = 0
    /\ pc = "ran"
    /\ outer = "resolved"
    /\ microtasks = <<"sortPick">>
    /\ crashed = FALSE
    /\ serviceLoaded = 1
    /\ serverProc = "closed"
    /\ serverStatus = "0"
    /\ serverClosed = TRUE
    /\ timer = "armed"
    /\ timerDue = 2
    /\ sigints = 0
    /\ signals = <<>>
    /\ \E n \in 1..MaxCandidates :
          /\ listing = [i \in 1..n |-> i]
          /\ statRes \in [1..n -> TieTimes]
    /\ dir = [p \in 1..Len(listing) |-> statRes[p]]
    /\ globState = "done"
    /\ allState = "resolved"
    /\ picked = 0
    /\ profileProc = "none"
    /\ profileArg = 0
    /\ profileStatus = "none"
    /\ pipe = <<>>
    /\ emitted = <<>>
    /\ output = <<>>
    /\ report = <<>>
    /\ log = <<"Profiling", "Restarting", "Finding">>

SortNext == SortPick

SortSpec == SortInit /\ [][SortNext]_vars

\* The first path, in listing order, whose mtime is the greatest.
FirstGreatest ==
    listing[CHOOSE k \in 1..Len(listing) :
                /\ \A i \in 1..Len(listing) : statRes[k] >= statRes[i]
                /\ \A j \in 1..(k - 1) : statRes[j] < statRes[k]]

\* C21 as stated: of the candidates that share the greatest mtime the one
\* listed first is returned.
C21_TieGoesToFirstListed ==
    picked # 0 => picked = FirstGreatest
\* C21 amended: the path returned has the greatest mtime and is determined
\* by the listing and the mtimes alone; it is the first of the tied
\* candidates in listing order when there are at most InsertionSortLimit
\* candidates.
C21_TieBreakIsDeterministic ==
    picked # 0 =>
        /\ \E k \in 1..Len(listing) :
              /\ listing[k] = picked
              /\ \A i \in 1..Len(listing) : statRes[k] >= statRes[i]
        /\ picked = LatestPath(StatRecords)
        /\ Len(listing) <= InsertionSortLimit => picked = FirstGreatest
\* C21 witness: of ten candidates with the same mtime the first is returned.
C21_Witness ==
    /\ Len(listing) = InsertionSortLimit /\ picked = 1
    /\ \A i \in 1..Len(listing) : statRes[i] = 2

\* C22: the isolate files change only by a write of the running profiled
\* child to its own file; a step of the supervisor (close handler, glob,
\* fs.stat, sort, spawn of the post-processor, its data and close handlers,
\* report, catch, timer callback, require) leaves every file and mtime as it
\* was, so no file that exists is ever removed and from the close of the
\* profiled child on the directory is fixed.
C22_SupervisorLeavesArtifacts ==
    /\ [][dir' # dir =>
             /\ serverProc = "running"
             /\ \A p \in PathIds \ {ChildPath} : dir'[p] = dir[p]
             /\ UNCHANGED <<env, now, pc, outer, microtasks, crashed,
                            serviceLoaded, serverVars, timerVars, locatorVars,
                            profileVars, log>>]_vars
    /\ [][\A p \in PathIds : dir[p] # NoFile => dir'[p] # NoFile]_vars
    /\ [][serverClosed => dir' = dir]_vars
\* C22 witness: the report on this session's file was printed and that file
\* and a leftover of an earlier session are both still there.
C22_Witness ==
    /\ Logged("End") /\ profileArg = ChildPath
    /\ dir[ChildPath] # NoFile /\ dir[1] # NoFile

\* The reaction of lines 54-56 is queued.
RequireQueued == \E i \in 1..Len(microtasks) : microtasks[i] = "require"

\* C23: with profiling enabled, the outer promise is resolved, its reaction
\* queued and the service loaded only when the close handler of the
\* profiled child has run and the child is gone; while the child has not
\* closed, also after the timer fired and the SIGINT was sent, the service
\* is not loaded and its load is not queued.
C23_ServiceNeverBesideChild ==
    ProfilingEnabled(env) =>
        /\ (outer = "resolved" \/ RequireQueued \/ serviceLoaded > 0)
              => (serverClosed /\ serverProc = "closed")
        /\ serverProc \in {"running", "exited"}
              => (serviceLoaded = 0 /\ ~RequireQueued /\ outer = "pending")
        /\ (timer = "fired" /\ ~serverClosed)
              => (serviceLoaded = 0 /\ ~RequireQueued /\ outer = "pending")
\* C23 witness: the timer fired, the child got its SIGINT and closed, and
\* only then was the service loaded.
C23_Witness ==
    /\ env = "2" /\ timer = "fired" /\ Len(signals) = 1
    /\ serverProc = "closed" /\ serverStatus = KillSignal
    /\ serviceLoaded = 1 /\ globState = "pending"

\* C24: the service is loaded at most once, and once it is loaded no further
\* load is queued; before that at most one load is queued.
C24_ServiceLoadedAtMostOnce ==
    serviceLoaded
        + Cardinality({i \in 1..Len(microtasks) : microtasks[i] = "require"}) <= 1
\* C24 witness: a session with profiling that ran to its report, the timer
\* firing after the child had ended on its own; the service was loaded once.
C24_Witness ==
    /\ ProfilingEnabled(env) /\ serviceLoaded = 1 /\ Session = "Done"
    /\ timer = "fired" /\ signals = <<>> /\ microtasks = <<>>

\* ------------------------------------------------- liveness of the session
\* Besides Fairness: the callbacks of glob and fs.stat arrive, queued
\* promise reactions run, and the 'error', 'data' and 'close' events of the
\* post-processor are delivered.  Nothing makes the post-processor end:
\* ProfileExit has no fairness.
SessionFairness ==
    /\ Fairness
    /\ WF_vars(GlobDone)
    /\ WF_vars(MapStats)
    /\ WF_vars(\E i \in PathIds : StatDone(i))
    /\ WF_vars(SortPick)
    /\ WF_vars(SpawnProfile)
    /\ WF_vars(ProfileErrorEvent)
    /\ WF_vars(ProfileData)
    /\ WF_vars(ProfileClose)
    /\ WF_vars(EmitReport)
    /\ WF_vars(CatchWarn)

SessionLiveSpec == InitNoLeftovers /\ [][Next]_vars /\ SessionFairness

\* C25 as stated: unless the post-processor keeps running for ever, a
\* session whose profiled child has closed eventually has the report block
\* or the warning in the log; each is logged at most once and never both.
C25_EndsInExactlyOneOutcome ==
    /\ \/ <>[](profileProc = "running")
       \/ (serverClosed ~> (Logged("End") \/ Logged("Warn")))
    /\ [](/\ TimesLogged("Start") <= 1 /\ TimesLogged("End") <= 1
          /\ TimesLogged("Warn") <= 1
          /\ ~(Logged("End") /\ Logged("Warn")))
====
